---- MODULE Spec2Model ----
(***************************************************************************)
(* Client-side signaling session of the video-call application            *)
(* (frontend/src/components/VideoCall.js): the reconnection controller    *)
(* around the signaling WebSocket, the per-remote RTCPeerConnection map    *)
(* and the asynchronous negotiation handlers.                              *)
(* The signaling server (room registry and broadcaster) is not part of the *)
(* sources at hand; it is modelled from the design document's sections     *)
(* 3, 4.1-4.3 and 5 (variable server).                                     *)
(*                                                                         *)
(* One browser client is a record (see InitClient).  The signaling server  *)
(* and the browser's WebSocket / WebRTC engines are the environment: they   *)
(* open and close sockets, deliver messages and settle SDP promises.       *)
(***************************************************************************)
EXTENDS Integers, Sequences, FiniteSets, TLC

VARIABLES client, ev, server, app

vars == <<client, ev, server, app>>

----------------------------------------------------------------------------
(* Bounds of the model *)

\* Spec: WebSocket objects the client creates in a run (initial connect and
\* reconnects) and connected messages the server delivers
MaxSockets == 6
MaxControl == 1
\* SpecNegotiation: signaling messages delivered
MaxMessages == 2
\* SpecHandshake: sockets created and signaling messages delivered
MaxJoinSockets == 2
MaxJoinMessages == 2
\* SpecMedia: signaling messages delivered and clicks on the screen-share
\* button
MaxMediaMessages == 2
MaxToggles == 2
\* SpecSelf: signaling messages delivered
MaxSelfMessages == 3
\* SpecRejoin: signaling messages delivered
MaxRejoinMessages == 3
\* SpecStray: messages and unparsable frames delivered
MaxStrayMessages == 3
\* SpecMute: signaling messages delivered
MaxMuteMessages == 2

----------------------------------------------------------------------------
(* Values *)

None == "none"

\* browser clients that are modelled
Clients == {"c1"}

\* participant identities the server hands out; "u1" is the one it assigns
\* to the modelled client
Ids == {"u1", "u2", "u3"}
SelfId == "u1"
Remotes == Ids \ {SelfId}
PeerKeys == Ids \cup {None}

RoomId == "room"
Username == "alice"

maxReconnectAttempts == 5
NormalClosure == 1000
RoomNotFoundCode == 1008
\* 1006 stands for every close code the onclose handler does not test for
CloseCodes == {NormalClosure, 1006, RoomNotFoundCode}

Min(a, b) == IF a < b THEN a ELSE b

\* the event a step performed: which operation ran in which client, on which
\* socket, with which close code / message type / identity; opened = the
\* socket of a close event had opened before
Ev(c, op, sock, code, mtype, who, opened) ==
  [c |-> c, op |-> op, sock |-> sock, code |-> code, mtype |-> mtype, who |-> who,
   opened |-> opened]

----------------------------------------------------------------------------
(* Messages *)

\* inbound envelope {type, sender_id, user_id, data}; data is split into the
\* fields the handlers read: data.user_id and data.participants
Msg(type, sender, user, duid, parts) ==
  [type |-> type, sender_id |-> sender, user_id |-> user, data_user_id |-> duid,
   participants |-> parts]

\* outbound envelope; for = index of the RTCPeerConnection whose offer/answer
\* the message carries (0 when it carries none)
Out(type, user, for) ==
  [type |-> type, room_id |-> RoomId, user_id |-> user, for |-> for]

JoinMessage == Out("join", Username, 0)

\* the mute-status frame of toggleMic
MuteStatus(muted) ==
  [type |-> "mute-status", room_id |-> RoomId, user_id |-> None, for |-> 0,
   muted |-> muted]

\* an inbound mute-status of a remote participant
MuteStatusMsg(sender, muted) ==
  [type |-> "mute-status", sender_id |-> sender, user_id |-> None,
   data_user_id |-> None, participants |-> <<>>, muted |-> muted]

\* connected as the client reads it (data.user_id) and as the server's
\* README documents it (user_id at the top level)
ControlMessages ==
  {Msg("connected", None, None, SelfId, <<>>), Msg("connected", None, SelfId, None, <<>>)}

\* user-left as the client reads it (sender_id) and as the README documents
\* it (user_id)
NegotiationMessages ==
     {Msg("connected", None, None, SelfId, <<>>)}
  \cup {Msg("user-joined", None, u, None, <<>>) : u \in {"u1", "u2"}}
  \cup {Msg("existing-participants", None, None, None, p) : p \in {<<"u2", "u3">>, <<"u1", "u2">>}}
  \cup {Msg(t, "u2", None, None, <<>>) : t \in {"offer", "answer", "ice-candidate"}}
  \cup {Msg("offer", "u3", None, None, <<>>)}
  \cup {Msg("user-left", None, "u2", None, <<>>), Msg("user-left", "u2", None, None, <<>>)}

HandshakeMessages ==
  {Msg("connected", None, None, SelfId, <<>>),
   Msg("user-joined", None, "u2", None, <<>>),
   Msg("offer", "u2", None, None, <<>>)}

\* connected in both shapes, and traffic that names the client itself
SelfMessages ==
     ControlMessages
  \cup {Msg("user-joined", None, SelfId, None, <<>>),
        Msg("existing-participants", None, None, None, <<SelfId, "u2">>)}
  \cup {Msg(t, SelfId, None, None, <<>>) : t \in {"offer", "answer", "ice-candidate"}}

\* traffic that matches nothing: answers and candidates of senders without a
\* connection, and a type no case of the switch names
StrayMessages ==
     {Msg("user-joined", None, "u2", None, <<>>)}
  \cup {Msg(t, u, None, None, <<>>) : t \in {"answer", "ice-candidate"}, u \in {"u2", "u3"}}
  \cup {Msg("chat", "u2", None, None, <<>>)}

\* the members the server lists to a session that joins
RejoinList == <<"u2", "u3">>

\* the server's side of the join handshake
RejoinMessages ==
  {Msg("connected", None, None, SelfId, <<>>),
   Msg("existing-participants", None, None, None, RejoinList)}

MediaMessages ==
  {Msg("user-joined", None, "u2", None, <<>>), Msg("offer", "u3", None, None, <<>>)}

\* a participant joins, reports its mute status and leaves
MuteMessages ==
  {Msg("user-joined", None, "u2", None, <<>>),
   MuteStatusMsg("u2", TRUE), MuteStatusMsg("u2", FALSE),
   Msg("user-left", "u2", None, None, <<>>)}

----------------------------------------------------------------------------
(* Objects of one client *)

\* a WebSocket: readyState, the userId property the client stores on it,
\* whether its open event has fired, the type of the first frame sent on it
\* and the number of join frames sent on it, whether connected has been
\* handled on it (a socket whose close event has fired keeps none of the last
\* four: nothing can be sent or received on it any more)
NewSocket ==
  [state |-> "connecting", userId |-> None, opened |-> FALSE, first |-> None, joins |-> 0,
   connected |-> FALSE]

\* an RTCPeerConnection: remote identity it was created for, closed flag,
\* signalingState, type of the local / remote description applied last,
\* the handler that created it, the chain of pending SDP operations
\* (each entry is a handler awaiting that operation), the track of its video
\* sender (none when it was created without local media) and whether
\* restartIce() has been called on it
NewPeer(userId, via) ==
  [rid |-> userId, closed |-> FALSE, sig |-> "stable", local |-> None,
   remote |-> None, via |-> via, chain |-> <<>>, video |-> None, restart |-> FALSE,
   audio |-> 0, sock |-> 0]

\* a closed RTCPeerConnection: its pending operations never complete
ClosedPeer(userId) ==
  [rid |-> userId, closed |-> TRUE, sig |-> "closed", local |-> None,
   remote |-> None, via |-> None, chain |-> <<>>, video |-> None, restart |-> FALSE,
   audio |-> 0, sock |-> 0]

InitClient ==
  [mounted |-> TRUE,
   left |-> "no",
   init |-> "timer",
   localStream |-> FALSE,
   isLoading |-> TRUE,
   isConnected |-> FALSE,
   error |-> None,
   wsRef |-> 0,
   socks |-> <<>>,
   timers |-> {},
   reconnectTimeoutRef |-> 0,
   reconnectAttempts |-> 0,
   peersRef |-> [k \in PeerKeys |-> 0],
   pcs |-> <<>>,
   outbox |-> <<>>,
   nmsg |-> 0,
   everOpened |-> FALSE,
   schedSinceOpen |-> 0,
   isScreenSharing |-> FALSE,
   video |-> None,
   screenLive |-> FALSE,
   shareReqs |-> {},
   ntoggle |-> 0,
   isMuted |-> FALSE,
   mic |-> 0,
   micGen |-> 0,
   micOff |-> {},
   remoteMuteStatus |-> [k \in Ids |-> None]]

----------------------------------------------------------------------------
(* Reconnection controller *)

\* mutant: the cap on the delay is missing
BackoffDelay_NoCap(attempt) == 1000 * 2^attempt

BackoffDelay(attempt) == Min(1000 * 2^attempt, 30000)

\* mutant: the room-not-found code is not recognised
IsRoomGone_Never(code) == FALSE

IsRoomGone(code) == code = RoomNotFoundCode

\* mutant: a normal closure is not recognised
IsNormalClose_Never(code) == FALSE

IsNormalClose(code) == code = NormalClosure

\* mutant: the bound is tested with <= instead of <
MayRetry_OffByOne(attempts) == attempts <= maxReconnectAttempts

MayRetry(attempts) == attempts < maxReconnectAttempts

\* mutant: the counter is not reset
ResetAttempts_Keep(st) == st

ResetAttempts(st) == [st EXCEPT !.reconnectAttempts = 0]

\* wsRef.current?.userId
MyUserId(st) == IF st.wsRef = 0 THEN None ELSE st.socks[st.wsRef].userId

WsOpen(st) == st.wsRef # 0 /\ st.socks[st.wsRef].state = "open"

\* ws.close(): an open or connecting socket starts closing
CloseSocket(st, s) ==
  IF st.socks[s].state \in {"connecting", "open"}
  THEN [st EXCEPT !.socks[s].state = "closing"]
  ELSE st

connectWebSocket(st) ==
  LET st1 == IF WsOpen(st)
             THEN [CloseSocket(st, st.wsRef) EXCEPT !.wsRef = 0]
             ELSE st
      s == Len(st1.socks) + 1
  IN [st1 EXCEPT !.socks = Append(@, NewSocket), !.wsRef = s]

\* ws.send(frame) on socket s: the frame goes onto the wire; outbox holds the
\* frames the current step has sent
Send(st, s, m) ==
  [st EXCEPT !.outbox = Append(@, [sock |-> s, msg |-> m]),
             !.socks[s].first = IF @ = None THEN m.type ELSE @,
             !.socks[s].joins = IF m.type = "join" THEN @ + 1 ELSE @]

\* mutant: the open handler sends no join
onopen_NoJoin(st, s) == ResetAttempts([st EXCEPT !.isConnected = TRUE])

onopen(st, s) ==
  Send(ResetAttempts([st EXCEPT !.isConnected = TRUE]), s, JoinMessage)

onclose(st, s, code) ==
  LET st1 == [st EXCEPT !.isConnected = FALSE]
  IN IF IsRoomGone(code) THEN [st1 EXCEPT !.error = "room-not-found"]
     ELSE IF IsNormalClose(code) THEN st1
     ELSE IF MayRetry(st1.reconnectAttempts)
          THEN LET n == st1.reconnectAttempts + 1
               IN [st1 EXCEPT !.reconnectAttempts = n,
                              !.timers = @ \cup {[id |-> s, delay |-> BackoffDelay(n)]},
                              !.reconnectTimeoutRef = s,
                              !.schedSinceOpen = @ + 1]
          ELSE [st1 EXCEPT !.error = "connect-failed"]

\* clearTimeout(reconnectTimeoutRef.current)
ClearReconnectTimeout(st) ==
  [st EXCEPT !.timers = {t \in @ : t.id # st.reconnectTimeoutRef}]

----------------------------------------------------------------------------
(* Peer connections and signaling *)

\* mutant: the check for an existing connection is missing
HasPeer_Never(st, userId) == FALSE

HasPeer(st, userId) == st.peersRef[userId] # 0

\* mutant: the readyState of the socket is not tested
sendSignalingMessage_AnyState(st, m) ==
  IF st.wsRef # 0 THEN Send(st, st.wsRef, m) ELSE st

sendSignalingMessage(st, m) ==
  IF WsOpen(st) THEN Send(st, st.wsRef, m) ELSE st

\* the new connection gets the tracks of the local stream, if there is one;
\* sock records the signaling socket that was current when it was created
createPeerConnection(st, userId, via) ==
  [st EXCEPT !.pcs = Append(@, [NewPeer(userId, via) EXCEPT
                                  !.video = IF st.localStream THEN st.video ELSE None,
                                  !.audio = IF st.localStream THEN st.mic ELSE 0,
                                  !.sock = st.wsRef]),
             !.peersRef[userId] = Len(st.pcs) + 1]

\* the handler calls an SDP operation on peer connection i and awaits it
Await(st, i, kind, at) ==
  [st EXCEPT !.pcs[i].chain = Append(@, [kind |-> kind, at |-> at])]

\* peer.close()
ClosePeer(st, i) == [st EXCEPT !.pcs[i] = ClosedPeer(@.rid)]

RECURSIVE CloseAllPeers(_, _)
CloseAllPeers(st, i) ==
  IF i > Len(st.pcs) THEN st
  ELSE CloseAllPeers(IF st.peersRef[st.pcs[i].rid] = i THEN ClosePeer(st, i) ELSE st, i + 1)

ClearPeers(st) == [st EXCEPT !.peersRef = [k \in PeerKeys |-> 0]]

\* create the connection and start the offer: createPeerConnection, then
\* await createOffer()
StartOffer(st, userId, via) ==
  LET st1 == createPeerConnection(st, userId, via)
  IN Await(st1, st1.peersRef[userId], "offerer", "createOffer")

onUserJoined(st, m) ==
  LET joinedUserId == IF m.user_id # None THEN m.user_id ELSE m.sender_id
  IN IF joinedUserId = None THEN st
     ELSE IF joinedUserId = MyUserId(st) THEN st
     ELSE IF HasPeer(st, joinedUserId) THEN st
     ELSE StartOffer(st, joinedUserId, "user-joined")

RECURSIVE onExistingParticipants(_, _)
onExistingParticipants(st, parts) ==
  IF parts = <<>> THEN st
  ELSE LET existingUserId == Head(parts)
           st1 == IF existingUserId # MyUserId(st) /\ ~HasPeer(st, existingUserId)
                  THEN StartOffer(st, existingUserId, "existing-participants")
                  ELSE st
       IN onExistingParticipants(st1, Tail(parts))

\* mutant: an incoming offer is not taken up
onOffer_Ignore(st, m) == st

onOffer(st, m) ==
  LET st1 == IF HasPeer(st, m.sender_id) THEN st
             ELSE createPeerConnection(st, m.sender_id, "offer")
  IN Await(st1, st1.peersRef[m.sender_id], "answerer", "setRemoteDescription")

\* mutant: an answer of an unknown sender gets a connection of its own
onAnswer_Create(st, m) ==
  LET st1 == IF HasPeer(st, m.sender_id) THEN st
             ELSE createPeerConnection(st, m.sender_id, "answer")
  IN Await(st1, st1.peersRef[m.sender_id], "answer", "setRemoteDescription")

onAnswer(st, m) ==
  IF HasPeer(st, m.sender_id)
  THEN Await(st, st.peersRef[m.sender_id], "answer", "setRemoteDescription")
  ELSE st

onIceCandidate(st, m) ==
  IF HasPeer(st, m.sender_id)
  THEN Await(st, st.peersRef[m.sender_id], "ice", "addIceCandidate")
  ELSE st

onUserLeft(st, m) ==
  LET st1 == IF HasPeer(st, m.sender_id)
             THEN [ClosePeer(st, st.peersRef[m.sender_id]) EXCEPT !.peersRef[m.sender_id] = 0]
             ELSE st
  IN IF m.sender_id \in Ids THEN [st1 EXCEPT !.remoteMuteStatus[m.sender_id] = None]
     ELSE st1

\* case 'mute-status': data?.muted || false is recorded for the sender
onMuteStatus(st, m) ==
  IF m.sender_id # None /\ m.sender_id # MyUserId(st)
  THEN [st EXCEPT !.remoteMuteStatus[m.sender_id] = m.muted]
  ELSE st

onConnected(st, m) ==
  LET st1 == IF st.wsRef # 0
             THEN [st EXCEPT !.socks[st.wsRef].userId = m.data_user_id,
                             !.socks[st.wsRef].connected = TRUE]
             ELSE st
  IN ResetAttempts([st1 EXCEPT !.isConnected = TRUE, !.isLoading = FALSE])

handleSignalingMessage(st, m) ==
  LET actualSenderId == IF m.sender_id # None THEN m.sender_id ELSE m.user_id
  IN IF /\ actualSenderId # None
        /\ actualSenderId = MyUserId(st)
        /\ m.type \notin {"user-joined", "existing-participants", "connected"}
     THEN st
     ELSE CASE m.type = "user-joined" -> onUserJoined(st, m)
            [] m.type = "offer" -> onOffer(st, m)
            [] m.type = "answer" -> onAnswer(st, m)
            [] m.type = "ice-candidate" -> onIceCandidate(st, m)
            [] m.type = "user-left" -> onUserLeft(st, m)
            [] m.type = "connected" -> onConnected(st, m)
            [] m.type = "mute-status" -> onMuteStatus(st, m)
            [] m.type = "existing-participants" -> onExistingParticipants(st, m.participants)
            [] OTHER -> st

----------------------------------------------------------------------------
(* Settling of the awaited SDP operations *)

\* whether the browser can carry out the operation in the connection's
\* signaling state (it may still reject it: see SettleOp)
CanSettle(pc, h) ==
  CASE h.at = "createOffer" -> pc.sig \in {"stable", "have-local-offer"}
    [] h.kind = "offerer" /\ h.at = "setLocalDescription" ->
         pc.sig \in {"stable", "have-local-offer"}
    [] h.kind = "answerer" /\ h.at = "setRemoteDescription" -> TRUE
    [] h.at = "createAnswer" -> pc.sig = "have-remote-offer"
    [] h.kind = "answerer" /\ h.at = "setLocalDescription" ->
         pc.sig = "have-remote-offer"
    [] h.kind = "answer" /\ h.at = "setRemoteDescription" ->
         pc.sig = "have-local-offer"
    [] h.at = "addIceCandidate" -> pc.remote # None
    [] OTHER -> FALSE

\* the awaited operation at the head of connection i's chain resolves and the
\* handler runs on to its next await or to its end
resolved(st, i) ==
  LET h == Head(st.pcs[i].chain)
      st1 == [st EXCEPT !.pcs[i].chain = Tail(@)]
  IN CASE h.kind = "offerer" /\ h.at = "createOffer" ->
            Await(st1, i, "offerer", "setLocalDescription")
       [] h.kind = "offerer" /\ h.at = "setLocalDescription" ->
            sendSignalingMessage(
              [st1 EXCEPT !.pcs[i].sig = "have-local-offer", !.pcs[i].local = "offer"],
              Out("offer", None, i))
       [] h.kind = "answerer" /\ h.at = "setRemoteDescription" ->
            Await([st1 EXCEPT !.pcs[i].sig = "have-remote-offer", !.pcs[i].remote = "offer"],
                  i, "answerer", "createAnswer")
       [] h.kind = "answerer" /\ h.at = "createAnswer" ->
            Await(st1, i, "answerer", "setLocalDescription")
       [] h.kind = "answerer" /\ h.at = "setLocalDescription" ->
            sendSignalingMessage(
              [st1 EXCEPT !.pcs[i].sig = "stable", !.pcs[i].local = "answer"],
              Out("answer", None, i))
       [] h.kind = "answer" /\ h.at = "setRemoteDescription" ->
            [st1 EXCEPT !.pcs[i].sig = "stable", !.pcs[i].remote = "answer"]
       [] OTHER -> st1

\* the awaited operation rejects: the handler's catch block logs and ends
rejected(st, i) == [st EXCEPT !.pcs[i].chain = Tail(@)]

----------------------------------------------------------------------------
(* Leaving and unmounting *)

\* the cleanup function of the mount effect
cleanup(st) ==
  LET st1 == [st EXCEPT !.init = IF @ = "timer" THEN "cancelled" ELSE @,
                        !.mounted = FALSE]
      st2 == IF st1.wsRef # 0
             THEN [(IF WsOpen(st1) THEN CloseSocket(st1, st1.wsRef) ELSE st1)
                     EXCEPT !.wsRef = 0]
             ELSE st1
      st3 == [ClearPeers(CloseAllPeers(st2, 1)) EXCEPT !.screenLive = FALSE]
  IN IF st3.reconnectTimeoutRef # 0 THEN ClearReconnectTimeout(st3) ELSE st3

\* handleLeave up to its call of onLeave
handleLeave(st) ==
  LET st1 == [ClearPeers(CloseAllPeers(st, 1)) EXCEPT !.screenLive = FALSE]
      st2 == IF WsOpen(st1)
             THEN Send(st1, st1.wsRef, Out("leave", None, 0))
             ELSE st1
      st3 == IF st2.wsRef # 0
             THEN [CloseSocket(st2, st2.wsRef) EXCEPT !.wsRef = 0]
             ELSE st2
  IN IF st3.reconnectTimeoutRef # 0 THEN ClearReconnectTimeout(st3) ELSE st3

----------------------------------------------------------------------------
(* Start-up, screen sharing and peer transport events *)

\* mutant: init gives up when the local media could not be obtained
init_StopOnMediaError(st) ==
  IF st.mounted /\ st.error = None THEN connectWebSocket(st) ELSE st

\* init() after initializeLocalStream() has returned (it never throws)
init(st) == IF st.mounted THEN connectWebSocket(st) ELSE st

\* toggleMic: the audio tracks of the local stream get enabled = isMuted,
\* isMuted flips and the new value is sent as mute-status
toggleMic(st) ==
  IF st.localStream
  THEN sendSignalingMessage(
         [st EXCEPT !.micOff = IF st.mic = 0 THEN @
                               ELSE IF st.isMuted THEN @ \ {st.mic} ELSE @ \cup {st.mic},
                    !.isMuted = ~st.isMuted],
         MuteStatus(~st.isMuted))
  ELSE st

\* mutant: the track is swapped by remove/add, which needs a new offer
ReplaceVideo_Renegotiate(pc, track) ==
  [pc EXCEPT !.video = track,
             !.chain = Append(@, [kind |-> "offerer", at |-> "createOffer"])]

\* sender.replaceTrack(track) on the video sender of one connection, if it
\* has one
ReplaceVideo(pc, track) ==
  IF pc.video # None THEN [pc EXCEPT !.video = track] ELSE pc

\* peersRef.current.forEach: every connection of the map
ReplaceAll(st, track) ==
  [st EXCEPT !.pcs = [i \in 1..Len(st.pcs) |->
                        IF st.peersRef[st.pcs[i].rid] = i
                        THEN ReplaceVideo(st.pcs[i], track) ELSE st.pcs[i]]]

\* toggleScreenShare up to its first await; isScreenSharing is the value the
\* running closure holds: a screen capture is requested when it is false,
\* the camera when it is true
toggleScreenShare(st, isScreenSharing) ==
  [st EXCEPT !.shareReqs = @ \cup {IF isScreenSharing THEN "camera" ELSE "display"}]

\* getDisplayMedia resolved: the rest of the start branch
shareStarted(st) ==
  [ReplaceAll(st, "screen") EXCEPT !.shareReqs = @ \ {"display"},
                                  !.localStream = TRUE, !.video = "screen",
                                  !.screenLive = TRUE, !.isScreenSharing = TRUE]

\* getUserMedia resolved: the rest of the stop branch (the video tracks of
\* the stream shared so far are stopped); the new camera stream, with a new
\* and enabled microphone track, becomes the local stream
shareStopped(st) ==
  [ReplaceAll(st, "camera") EXCEPT !.shareReqs = @ \ {"camera"},
                                  !.localStream = TRUE, !.video = "camera",
                                  !.mic = st.micGen + 1, !.micGen = st.micGen + 1,
                                  !.screenLive = FALSE, !.isScreenSharing = FALSE]

\* the request was rejected: the catch block changes nothing of the call
shareFailed(st, kind) == [st EXCEPT !.shareReqs = @ \ {kind}]

\* videoTrack.onended, set by the start branch: it calls the
\* toggleScreenShare of the render that started the share, in which
\* isScreenSharing is false
onended(st) == toggleScreenShare([st EXCEPT !.screenLive = FALSE], FALSE)

\* mutant: a failed connection is closed and dropped at once
onconnectionstatechange_CloseOnFail(st, i, state) ==
  IF state = "failed"
  THEN [ClosePeer(st, i) EXCEPT !.peersRef[st.pcs[i].rid] = 0]
  ELSE st

\* peerConnection.onconnectionstatechange
onconnectionstatechange(st, i, state) ==
  IF state = "failed" THEN [st EXCEPT !.pcs[i].restart = TRUE] ELSE st

\* which screen the component renders
LoadingScreen(st) == st.isLoading /\ ~st.localStream
ErrorScreen(st) ==
  st.mounted /\ ~LoadingScreen(st) /\ st.error # None /\ ~st.localStream /\ ~st.isConnected
CallScreen(st) == st.mounted /\ ~LoadingScreen(st) /\ ~ErrorScreen(st)

----------------------------------------------------------------------------
(* Actions *)

Set(c, st, e) ==
  /\ client' = [client EXCEPT ![c] = st]
  /\ ev' = e
  /\ UNCHANGED <<server, app>>

\* the client's state as a step finds it: nothing sent yet in this step
Now(c) == [client[c] EXCEPT !.outbox = <<>>]

\* the 100 ms timer of the mount effect fires: init() starts and awaits
\* getUserMedia
InitTimerFire(c) ==
  /\ client[c].init = "timer"
  /\ Set(c, [Now(c) EXCEPT !.init = "media"], Ev(c, "init", 0, 0, None, None, FALSE))

\* getUserMedia resolves; init() goes on to connect while still mounted
MediaGranted(c) ==
  /\ client[c].init = "media"
  /\ LET st1 == [Now(c) EXCEPT !.init = "done", !.localStream = TRUE, !.isLoading = FALSE,
                               !.video = "camera", !.mic = 1, !.micGen = 1]
     IN Set(c, init(st1), Ev(c, "media-granted", 0, 0, None, None, FALSE))

\* getUserMedia rejects; init() still goes on to connect
MediaDenied(c) ==
  /\ client[c].init = "media"
  /\ LET st1 == [Now(c) EXCEPT !.init = "done", !.error = "media-denied", !.isLoading = FALSE]
     IN Set(c, init(st1), Ev(c, "media-denied", 0, 0, None, None, FALSE))

\* the 10 s auto-hide of the loading screen
LoadingTimeout(c) ==
  /\ client[c].mounted
  /\ client[c].isLoading /\ ~client[c].localStream /\ ~client[c].isConnected
  /\ Set(c, [Now(c) EXCEPT !.isLoading = FALSE], Ev(c, "loading-timeout", 0, 0, None, None, FALSE))

\* the socket's open event (the 500 ms timer of the open handler only clears
\* isLoading, which is already false whenever a socket exists)
SocketOpen(c, s) ==
  /\ client[c].socks[s].state = "connecting"
  /\ LET st1 == [Now(c) EXCEPT !.socks[s].state = "open", !.socks[s].opened = TRUE,
                                  !.everOpened = TRUE, !.schedSinceOpen = 0]
     IN Set(c, onopen(st1, s), Ev(c, "open", s, 0, None, None, FALSE))

\* the socket's close event; a socket that never opened fails with 1006
SocketClose(c, s, code) ==
  /\ client[c].socks[s].state \in {"connecting", "open", "closing"}
  /\ client[c].socks[s].opened \/ code = 1006
  /\ LET st1 == [Now(c) EXCEPT !.socks[s].state = "closed", !.socks[s].opened = FALSE,
                               !.socks[s].first = None, !.socks[s].joins = 0,
                               !.socks[s].connected = FALSE]
     IN Set(c, onclose(st1, s, code), Ev(c, "close", s, code, None, None, client[c].socks[s].opened))

\* a pending reconnect timer fires
ReconnectTimerFire(c, t, maxSockets) ==
  /\ t \in client[c].timers
  /\ Len(client[c].socks) < maxSockets
  /\ Set(c, connectWebSocket([Now(c) EXCEPT !.timers = @ \ {t}]),
         Ev(c, "timer", t.id, 0, None, None, FALSE))

\* the Retry Connection button of the error screen
RetryConnection(c, maxSockets) ==
  /\ ErrorScreen(client[c])
  /\ Len(client[c].socks) < maxSockets
  /\ Set(c, connectWebSocket(ResetAttempts([Now(c) EXCEPT !.error = None])),
         Ev(c, "retry", 0, 0, None, None, FALSE))

\* the Go Back button of the error screen: onLeave() unmounts the component
GoBack(c) ==
  /\ ErrorScreen(client[c])
  /\ Set(c, [cleanup(Now(c)) EXCEPT !.left = "unmount"],
         Ev(c, "unmount", 0, 0, None, None, FALSE))

\* the leave button: handleLeave(), whose onLeave() unmounts the component
HandleLeave(c) ==
  /\ CallScreen(client[c])
  /\ Set(c, [cleanup(handleLeave(Now(c))) EXCEPT !.left = "leave"],
         Ev(c, "leave", 0, 0, None, None, FALSE))

\* a message event on an open socket
OnMessage(c, s, m, maxMessages) ==
  /\ client[c].socks[s].state = "open"
  /\ client[c].nmsg < maxMessages
  /\ Set(c, handleSignalingMessage([Now(c) EXCEPT !.nmsg = @ + 1], m),
         Ev(c, "message", s, 0, m.type,
            IF m.type \in {"user-joined", "user-left"} /\ m.user_id # None
            THEN m.user_id ELSE m.sender_id,
            FALSE))

\* a message event whose data is not JSON: JSON.parse throws inside the try
\* block of onmessage and the catch only logs
OnUnparsable(c, s, maxMessages) ==
  /\ client[c].socks[s].state = "open"
  /\ client[c].nmsg < maxMessages
  /\ Set(c, [Now(c) EXCEPT !.nmsg = @ + 1],
         Ev(c, "message", s, 0, "not-json", None, FALSE))

\* the browser settles the operation at the head of a connection's chain
SettleOp(c, i, ok) ==
  /\ ~client[c].pcs[i].closed
  /\ client[c].pcs[i].chain # <<>>
  /\ ok => CanSettle(client[c].pcs[i], Head(client[c].pcs[i].chain))
  /\ Set(c, IF ok THEN resolved(Now(c), i) ELSE rejected(Now(c), i),
         Ev(c, IF ok THEN "resolved" ELSE "rejected", 0, 0, Head(client[c].pcs[i].chain).at,
            client[c].pcs[i].rid, FALSE))

\* a click on the screen-share button of the call screen
ToggleScreenShare(c, maxToggles) ==
  /\ CallScreen(client[c])
  /\ client[c].ntoggle < maxToggles
  /\ Set(c, toggleScreenShare([Now(c) EXCEPT !.ntoggle = @ + 1], client[c].isScreenSharing),
         Ev(c, "toggle-share", 0, 0, None, None, FALSE))

\* the browser settles a pending getDisplayMedia ("display") or getUserMedia
\* ("camera") of toggleScreenShare
ShareSettle(c, kind, ok) ==
  /\ kind \in client[c].shareReqs
  /\ Set(c, IF ~ok THEN shareFailed(Now(c), kind)
            ELSE IF kind = "display" THEN shareStarted(Now(c))
            ELSE shareStopped(Now(c)),
         Ev(c, IF ~ok THEN "share-failed"
               ELSE IF kind = "display" THEN "share-started" ELSE "share-stopped",
            0, 0, kind, None, FALSE))

\* the user clicks the microphone button
ToggleMic(c) ==
  /\ CallScreen(client[c])
  /\ Set(c, toggleMic(Now(c)), Ev(c, "toggle-mic", 0, 0, None, None, FALSE))

\* the shared screen track ends by itself (the browser's stop-sharing bar,
\* the shared window closes)
ScreenTrackEnded(c) ==
  /\ client[c].screenLive
  /\ Set(c, onended(Now(c)), Ev(c, "screen-ended", 0, 0, None, None, FALSE))

\* a live peer connection reports a change of its connectionState
ConnectionStateChange(c, i, state) ==
  /\ ~client[c].pcs[i].closed
  /\ Set(c, onconnectionstatechange(Now(c), i, state),
         Ev(c, "pc-state", 0, 0, state, client[c].pcs[i].rid, FALSE))

----------------------------------------------------------------------------
(* Signaling server: one room of the registry and its broadcaster *)

\* transport sessions that may connect to the room
Sessions == {"s1", "s2", "s3"}

\* message types a member may broadcast
BroadcastTypes == {"offer", "emoji"}

Idle == [kind |-> "idle", type |-> None, targets |-> {}, delivered |-> {}]

\* a transport that has not connected
NoTransport == [state |-> "none", code |-> 0]

\* the participant records of one identity in the room, counted by status
NoRecords == [active |-> 0, left |-> 0]

\* the request handled last
NoRequest == [by |-> None, kind |-> "none", result |-> None, db |-> None]

\* members: the active participants of the room; lock: the session inside
\* the room's exclusive section; op: what each session's handler is doing
\* (its fan-out in progress); last: the fan-out completed last;
\* status: the room's lifecycle; conn: each session's transport;
\* hello: what a session was sent when it connected; sent: the direct replies
\* of the step taken last; failed: the recipients a fan-out could not reach;
\* joinSeen / leftSeen: how many user-joined / user-left about p a session
\* has received since p connected last; participants: the participants table
InitServer ==
  [members |-> {},
   lock |-> None,
   op |-> [p \in Sessions |-> Idle],
   last |-> [sender |-> None, kind |-> "idle", type |-> None, delivered |-> {}],
   status |-> "none",
   conn |-> [p \in Sessions |-> NoTransport],
   hello |-> [p \in Sessions |-> <<>>],
   sent |-> <<>>,
   failed |-> [p \in Sessions |-> {}],
   joinSeen |-> [r \in Sessions |-> [p \in Sessions |-> 0]],
   leftSeen |-> [r \in Sessions |-> [p \in Sessions |-> 0]],
   participants |-> [p \in Sessions |-> NoRecords],
   req |-> NoRequest]

\* mutant: membership is read and changed outside any exclusive section
CanEnter_NoLock(sv) == TRUE

\* the room's exclusive section is free
CanEnter(sv) == sv.lock = None

\* Room Registry join / leave (leave is idempotent)
join(sv, p) == [sv EXCEPT !.members = @ \cup {p}]

leave(sv, p) == [sv EXCEPT !.members = @ \ {p}]

\* recipients of a fan-out on behalf of p: every other member
Recipients(sv, p) == sv.members \ {p}

\* session p's handler enters the exclusive section, applies its membership
\* change and computes the recipients of its fan-out
Enter(sv, p, kind, type) ==
  LET sv1 == CASE kind = "join" -> join(sv, p)
               [] kind = "leave" -> leave(sv, p)
               [] OTHER -> sv
  IN [sv1 EXCEPT !.lock = p,
                 !.op[p] = [kind |-> kind, type |-> type,
                            targets |-> Recipients(sv1, p), delivered |-> {}]]

ServerStep(sv) ==
  /\ server' = sv
  /\ UNCHANGED <<client, ev, app>>

\* a transport connects: register, then broadcast user-joined
Join(p) ==
  /\ CanEnter(server)
  /\ server.op[p].kind = "idle" /\ p \notin server.members
  /\ ServerStep(Enter(server, p, "join", "user-joined"))

\* transport close or explicit leave: unregister, then broadcast user-left
Leave(p) ==
  /\ CanEnter(server)
  /\ server.op[p].kind = "idle" /\ p \in server.members
  /\ ServerStep(Enter(server, p, "leave", "user-left"))

\* a member sends a negotiation or application message
Broadcast(p, type) ==
  /\ CanEnter(server)
  /\ server.op[p].kind = "idle" /\ p \in server.members
  /\ ServerStep(Enter(server, p, "broadcast", type))

\* the fan-out of p's handler sends to one more recipient
Deliver(p, r) ==
  /\ server.op[p].kind # "idle"
  /\ r \in server.op[p].targets \ server.op[p].delivered
  /\ ServerStep([server EXCEPT !.op[p].delivered = @ \cup {r}])

\* the fan-out is complete: p's handler leaves the exclusive section
Exit(p) ==
  /\ server.op[p].kind # "idle"
  /\ server.op[p].delivered = server.op[p].targets
  /\ ServerStep([server EXCEPT !.lock = IF @ = p THEN None ELSE @,
                               !.op[p] = Idle,
                               !.last = [sender |-> p, kind |-> server.op[p].kind,
                                         type |-> server.op[p].type,
                                         delivered |-> server.op[p].delivered]])

----------------------------------------------------------------------------
(* Signaling server: session manager, router replies and participant records *)

\* the error kind of a join against a room that is unknown or has ended
RoomNotFound == "RoomNotFound"

\* a message the server sends to one session
Reply(type, to, ids) == [type |-> type, to |-> to, ids |-> ids]

Request(p, kind, result, db) == [by |-> p, kind |-> kind, result |-> result, db |-> db]

\* CONSTRAINT unique_room_user UNIQUE(room_id, user_id, status): the records of
\* one identity in one room differ in status
unique_room_user(rows) == rows.active <= 1 /\ rows.left <= 1

\* INSERT of an active record for the identity
InsertActive(rows) == [rows EXCEPT !.active = @ + 1]

\* UPDATE of the identity's active record to status left
MarkLeft(rows) == [active |-> 0, left |-> rows.left + rows.active]

\* a statement that violates the constraint fails and changes nothing
Write(rows, new) == IF unique_room_user(new) THEN new ELSE rows

DbResult(new) == IF unique_room_user(new) THEN "ok" ELSE "unique_violation"

\* SELECT COUNT(*) FROM participants WHERE room_id = ... AND status = 'active'
get_active_participants_count(sv) ==
  Cardinality({<<p, i>> \in Sessions \X (1..2) : i <= sv.participants[p].active})

\* the sessions bound to the room
ActiveSessions(sv) == sv.members

\* mutant: a room is taken to exist whatever its status
RoomExists_Always(sv) == TRUE

\* the room exists and has not ended
RoomExists(sv) == sv.status = "active"

\* mutant: every leave is treated as the leave of a member
IsMember_Always(sv, p) == TRUE

IsMember(sv, p) == p \in sv.members

\* mutant: the list of existing participants includes the new session
Hello_ListsSelf(sv, p) ==
  <<Reply("connected", p, {p}), Reply("existing-participants", p, sv.members)>>

\* what a new session is sent: its identity, then the other active members
Hello(sv, p) ==
  <<Reply("connected", p, {p}),
    Reply("existing-participants", p, Recipients(sv, p))>>

\* what the sessions have been told about p so far no longer counts
Forget(seen, p) == [r \in Sessions |-> [seen[r] EXCEPT ![p] = 0]]

\* the messages session r has received went with its transport
Drop(seen, r) == [seen EXCEPT ![r] = [p \in Sessions |-> 0]]

\* a new transport for an existing room: register, greet, broadcast user-joined
register(sv, p) ==
  LET sv1 == Enter(sv, p, "join", "user-joined")
      new == InsertActive(sv.participants[p])
  IN [sv1 EXCEPT !.conn[p] = [state |-> "open", code |-> 0],
                 !.hello[p] = Hello(sv1, p),
                 !.sent = Hello(sv1, p),
                 !.joinSeen = Forget(@, p),
                 !.leftSeen = Forget(@, p),
                 !.participants[p] = Write(@, new),
                 !.req = Request(p, "connect", "ok", DbResult(new))]

\* a new transport for a room that does not exist: close it, change nothing
reject(sv, p) ==
  [sv EXCEPT !.conn[p] = [state |-> "closed", code |-> RoomNotFoundCode],
             !.hello[p] = <<>>,
             !.sent = <<>>,
             !.req = Request(p, "connect", RoomNotFound, None)]

onConnect(sv, p) == IF RoomExists(sv) THEN register(sv, p) ELSE reject(sv, p)

\* mutant: leaving a room one is not a member of is an error
LeaveResult_Strict(sv, p) == IF p \in sv.members THEN "ok" ELSE "error"

LeaveResult(sv, p) == IF p \in sv.members THEN "ok" ELSE "noop"

\* leave of the registry with its user-left broadcast; a no-op for a non-member
unregister(sv, p, kind) ==
  IF IsMember(sv, p)
  THEN LET sv1 == Enter(sv, p, "leave", "user-left")
           new == MarkLeft(sv.participants[p])
       IN [sv1 EXCEPT !.sent = <<>>,
                      !.joinSeen = Forget(@, p),
                      !.participants[p] = Write(@, new),
                      !.req = Request(p, kind, LeaveResult(sv, p), DbResult(new))]
  ELSE [sv EXCEPT !.sent = <<>>,
                  !.req = Request(p, kind, LeaveResult(sv, p), None)]

\* mutant: a malformed message ends the sender's connection
onMalformed_Disconnect(sv, p) ==
  [sv EXCEPT !.conn[p] = [state |-> "closed", code |-> NormalClosure],
             !.sent = <<>>,
             !.req = Request(p, "malformed", "error", None)]

\* a message of unknown type or without a required field: one error reply
onMalformed(sv, p) ==
  [sv EXCEPT !.sent = <<Reply("error", p, {})>>,
             !.req = Request(p, "malformed", "error", None)]

\* the recipients the fan-out of p has dealt with
Handled(sv, p) == sv.op[p].delivered \cup sv.failed[p]

\* mutant: the fan-out is given up at the first recipient it cannot reach
FanOutDone_AbortOnFailure(sv, p) ==
  sv.failed[p] # {} \/ Handled(sv, p) = sv.op[p].targets

\* the fan-out has dealt with every recipient
FanOutDone(sv, p) == Handled(sv, p) = sv.op[p].targets

Count(n) == Min(n + 1, 2)

\* one send of the fan-out of p: it reaches r, or fails on r's dead socket
forward(sv, p, r) ==
  IF sv.conn[r].state = "open"
  THEN [sv EXCEPT !.op[p].delivered = @ \cup {r},
                  !.joinSeen[r][p] = IF sv.op[p].kind = "join" THEN Count(@) ELSE @,
                  !.leftSeen[r][p] = IF sv.op[p].kind = "leave" THEN Count(@) ELSE @,
                  !.sent = <<>>,
                  !.req = Request(p, "send", "ok", None)]
  ELSE [sv EXCEPT !.failed[p] = @ \cup {r},
                  !.sent = <<>>,
                  !.req = Request(p, "send", "failed", None)]

\* the handler of p leaves the room's exclusive section
finish(sv, p) ==
  [sv EXCEPT !.lock = IF @ = p THEN None ELSE @,
             !.op[p] = Idle,
             !.failed[p] = {},
             !.sent = <<>>,
             !.req = Request(p, "finish", sv.op[p].kind, None)]

\* explicit creation call of the REST surface
CreateRoom ==
  /\ server.status = "none"
  /\ ServerStep([server EXCEPT !.status = "active", !.sent = <<>>,
                               !.req = Request(None, "create", "ok", None)])

\* the room ends once its last participant has left
EndRoom ==
  /\ server.status = "active" /\ server.members = {} /\ CanEnter(server)
  /\ ServerStep([server EXCEPT !.status = "ended", !.sent = <<>>,
                               !.req = Request(None, "end", "ok", None)])

\* a transport connects to the room's signaling endpoint
Connect(p) ==
  /\ CanEnter(server) /\ server.op[p].kind = "idle"
  /\ server.conn[p].state \in {"none", "closed"}
  /\ ServerStep(onConnect(server, p))

\* the session sends an explicit leave message
LeaveMessage(p) ==
  /\ CanEnter(server) /\ server.op[p].kind = "idle"
  /\ server.conn[p].state = "open"
  /\ ServerStep(unregister(server, p, "leave"))

\* the session's socket dies; the server has not yet seen the close
SocketDies(p) ==
  /\ server.conn[p].state = "open"
  /\ ServerStep([server EXCEPT !.conn[p].state = "dead", !.sent = <<>>,
                               !.req = Request(p, "die", None, None)])

\* the server sees the session's transport close
TransportClose(p) ==
  /\ CanEnter(server) /\ server.op[p].kind = "idle"
  /\ server.conn[p].state \in {"open", "dead"}
  /\ ServerStep(unregister([server EXCEPT !.conn[p] = NoTransport,
                                          !.hello[p] = <<>>,
                                          !.joinSeen = Drop(@, p),
                                          !.leftSeen = Drop(@, p)], p, "close"))

\* the session sends a message the server cannot decode
Malformed(p) ==
  /\ server.conn[p].state = "open"
  /\ ServerStep(onMalformed(server, p))

\* a member sends a negotiation or application message
Relay(p, type) ==
  /\ CanEnter(server) /\ server.op[p].kind = "idle"
  /\ server.conn[p].state = "open" /\ p \in server.members
  /\ ServerStep([Enter(server, p, "broadcast", type) EXCEPT
                   !.sent = <<>>, !.req = Request(p, "broadcast", type, None)])

\* the fan-out of p's handler sends to one more recipient
Forward(p, r) ==
  /\ server.op[p].kind # "idle"
  /\ ~FanOutDone(server, p)
  /\ r \in server.op[p].targets \ Handled(server, p)
  /\ ServerStep(forward(server, p, r))

\* the fan-out is over
Finish(p) ==
  /\ server.op[p].kind # "idle"
  /\ FanOutDone(server, p)
  /\ ServerStep(finish(server, p))

----------------------------------------------------------------------------
(* The join form of App *)

\* what the two inputs can hold: texts are sequences of characters
RoomInputs == {<<>>, <<" ">>, <<"a">>, <<" ", "a">>, <<"b">>}
NameInputs == {<<>>, <<" ">>, <<"x">>}

\* the room_id of the response of POST /create-room
CreatedRoom == <<"n">>

RECURSIVE TrimStart(_)
TrimStart(s) == IF s # <<>> /\ Head(s) = " " THEN TrimStart(Tail(s)) ELSE s

RECURSIVE TrimEnd(_)
TrimEnd(s) == IF s # <<>> /\ s[Len(s)] = " " THEN TrimEnd(SubSeq(s, 1, Len(s) - 1)) ELSE s

\* String.prototype.trim
trim(s) == TrimEnd(TrimStart(s))

\* what fetch of GET /rooms/{id} can come to: a 200 whose body says exists
\* true or false, a 404, another status, or a rejected fetch
Responses == {"200-true", "200-false", "404", "500", "network"}

\* checkRoomExists: the value it resolves to, or threw
checkRoomExists(resp) ==
  CASE resp = "404" -> [threw |-> FALSE, value |-> FALSE]
    [] resp = "500" -> [threw |-> TRUE, value |-> FALSE]
    [] resp = "network" -> [threw |-> TRUE, value |-> FALSE]
    [] OTHER -> [threw |-> FALSE, value |-> resp = "200-true"]

NoLookup == [pending |-> FALSE, room |-> <<>>]

\* the state of App; lookup is the checkRoomExists call handleJoin awaits,
\* creating the createRoom call handleCreateRoom awaits, checked the
\* lookup that settled last and its response
InitApp ==
  [roomId |-> <<>>, username |-> <<>>, joined |-> FALSE, isCreatingRoom |-> FALSE,
   isJoining |-> FALSE, error |-> "", lookup |-> NoLookup, creating |-> FALSE,
   checked |-> [room |-> <<>>, resp |-> None]]

\* App once the form has been passed with the room and name of the call
JoinedApp ==
  [InitApp EXCEPT !.roomId = <<"a">>, !.username = <<"x">>, !.joined = TRUE,
                  !.checked = [room |-> <<"a">>, resp |-> "200-true"]]

\* handleJoin up to its await, or to its early return
handleJoin(a) ==
  LET a1 == [a EXCEPT !.error = "", !.isJoining = TRUE]
  IN IF trim(a1.roomId) = <<>> \/ trim(a1.username) = <<>>
     THEN [a1 EXCEPT !.error = "blank", !.isJoining = FALSE]
     ELSE [a1 EXCEPT !.lookup = [pending |-> TRUE, room |-> trim(a1.roomId)]]

\* handleJoin from the await on: r is what checkRoomExists came to
joinResumed(a, r) ==
  IF r.threw THEN [a EXCEPT !.error = "failed", !.isJoining = FALSE]
  ELSE IF ~r.value THEN [a EXCEPT !.error = "no-room", !.isJoining = FALSE]
  ELSE [a EXCEPT !.error = "", !.isJoining = FALSE, !.joined = TRUE]

\* handleCreateRoom up to its await
handleCreateRoom(a) == [a EXCEPT !.isCreatingRoom = TRUE, !.error = "", !.creating = TRUE]

\* handleCreateRoom from the await on, with its finally block
createResumed(a, ok) ==
  IF ok THEN [a EXCEPT !.roomId = CreatedRoom, !.error = "", !.isCreatingRoom = FALSE,
                       !.creating = FALSE]
  ELSE [a EXCEPT !.error = "create-failed", !.isCreatingRoom = FALSE, !.creating = FALSE]

\* handleLeave of App, the onLeave of VideoCall
appLeave(a) == [a EXCEPT !.joined = FALSE, !.roomId = <<>>, !.username = <<>>]

AppStep(a, op, what) ==
  /\ app' = a
  /\ ev' = Ev(None, op, 0, 0, what, None, FALSE)
  /\ UNCHANGED <<client, server>>

\* onChange of the room id input, which is rendered while not joined
SetRoomId(v) ==
  /\ ~app.joined
  /\ v # app.roomId
  /\ AppStep([app EXCEPT !.roomId = v], "set-room", None)

\* onChange of the username input
SetUsername(v) ==
  /\ ~app.joined
  /\ v # app.username
  /\ AppStep([app EXCEPT !.username = v], "set-name", None)

\* onSubmit of the form: the submit button is disabled while isJoining and
\* both inputs are required, so the browser submits no empty field
SubmitJoin ==
  /\ ~app.joined /\ ~app.isJoining
  /\ app.roomId # <<>> /\ app.username # <<>>
  /\ AppStep(handleJoin(app), "submit", None)

\* the awaited checkRoomExists settles
LookupSettles(resp) ==
  /\ app.lookup.pending
  /\ AppStep(joinResumed([app EXCEPT !.lookup = NoLookup,
                                     !.checked = [room |-> app.lookup.room, resp |-> resp]],
                         checkRoomExists(resp)),
             "lookup", resp)

\* the Create Room button, disabled while isCreatingRoom
ClickCreateRoom ==
  /\ ~app.joined /\ ~app.isCreatingRoom
  /\ AppStep(handleCreateRoom(app), "create", None)

\* the awaited createRoom settles
CreateSettles(ok) ==
  /\ app.creating
  /\ AppStep(createResumed(app, ok), "created", IF ok THEN "ok" ELSE "failed")

\* VideoCall calls onLeave
LeaveCall ==
  /\ app.joined
  /\ AppStep(appLeave(app), "app-leave", None)

----------------------------------------------------------------------------
(* Specifications *)

Init ==
  /\ client = [c \in Clients |-> InitClient]
  /\ ev = Ev(None, "mount", 0, 0, None, None, FALSE)
  /\ server = InitServer
  /\ app = JoinedApp

\* the join form before any call
InitForm ==
  /\ client = [c \in Clients |-> InitClient]
  /\ ev = Ev(None, "mount", 0, 0, None, None, FALSE)
  /\ server = InitServer
  /\ app = InitApp

NextForm ==
  \/ \E v \in RoomInputs : SetRoomId(v)
  \/ \E v \in NameInputs : SetUsername(v)
  \/ SubmitJoin
  \/ \E resp \in Responses : LookupSettles(resp)
  \/ ClickCreateRoom
  \/ \E ok \in BOOLEAN : CreateSettles(ok)
  \/ LeaveCall

SpecForm == InitForm /\ [][NextForm]_vars

\* the reconnection controller: the server only confirms connections
Next ==
  \E c \in Clients :
    \/ InitTimerFire(c)
    \/ MediaGranted(c)
    \/ MediaDenied(c)
    \/ LoadingTimeout(c)
    \/ \E s \in 1..Len(client[c].socks) : SocketOpen(c, s)
    \/ \E s \in 1..Len(client[c].socks), code \in CloseCodes : SocketClose(c, s, code)
    \/ \E t \in client[c].timers : ReconnectTimerFire(c, t, MaxSockets)
    \/ RetryConnection(c, MaxSockets)
    \/ GoBack(c)
    \/ HandleLeave(c)
    \/ \E s \in 1..Len(client[c].socks), m \in ControlMessages :
         OnMessage(c, s, m, MaxControl)

Spec == Init /\ [][Next]_vars

\* the negotiation handlers under arbitrary signaling traffic, in a session
\* that ends before a reconnect delay has elapsed
NextNegotiation ==
  \E c \in Clients :
    \/ InitTimerFire(c)
    \/ MediaGranted(c)
    \/ MediaDenied(c)
    \/ LoadingTimeout(c)
    \/ \E s \in 1..Len(client[c].socks) : SocketOpen(c, s)
    \/ \E s \in 1..Len(client[c].socks), code \in CloseCodes : SocketClose(c, s, code)
    \/ GoBack(c)
    \/ HandleLeave(c)
    \/ \E s \in 1..Len(client[c].socks), m \in NegotiationMessages :
         OnMessage(c, s, m, MaxMessages)
    \/ \E i \in 1..Len(client[c].pcs), ok \in BOOLEAN : SettleOp(c, i, ok)

SpecNegotiation == Init /\ [][NextNegotiation]_vars

\* the join handshake of every socket, with handlers that send
NextHandshake ==
  \E c \in Clients :
    \/ InitTimerFire(c)
    \/ MediaGranted(c)
    \/ MediaDenied(c)
    \/ LoadingTimeout(c)
    \/ \E s \in 1..Len(client[c].socks) : SocketOpen(c, s)
    \/ \E s \in 1..Len(client[c].socks), code \in CloseCodes : SocketClose(c, s, code)
    \/ \E t \in client[c].timers : ReconnectTimerFire(c, t, MaxJoinSockets)
    \/ RetryConnection(c, MaxJoinSockets)
    \/ GoBack(c)
    \/ HandleLeave(c)
    \/ \E s \in 1..Len(client[c].socks), m \in HandshakeMessages :
         OnMessage(c, s, m, MaxJoinMessages)
    \/ \E i \in 1..Len(client[c].pcs), ok \in BOOLEAN : SettleOp(c, i, ok)

SpecHandshake == Init /\ [][NextHandshake]_vars

\* local media, screen sharing and peer transport events during a call
NextMedia ==
  \E c \in Clients :
    \/ InitTimerFire(c)
    \/ MediaGranted(c)
    \/ MediaDenied(c)
    \/ LoadingTimeout(c)
    \/ \E s \in 1..Len(client[c].socks) : SocketOpen(c, s)
    \/ HandleLeave(c)
    \/ \E s \in 1..Len(client[c].socks), m \in MediaMessages :
         OnMessage(c, s, m, MaxMediaMessages)
    \/ \E i \in 1..Len(client[c].pcs), ok \in BOOLEAN : SettleOp(c, i, ok)
    \/ ToggleScreenShare(c, MaxToggles)
    \/ \E kind \in {"display", "camera"}, ok \in BOOLEAN : ShareSettle(c, kind, ok)
    \/ ScreenTrackEnded(c)
    \/ \E i \in 1..Len(client[c].pcs), state \in {"disconnected", "failed"} :
         ConnectionStateChange(c, i, state)

SpecMedia == Init /\ [][NextMedia]_vars

\* signaling traffic that names the client itself
NextSelf ==
  \E c \in Clients :
    \/ InitTimerFire(c)
    \/ MediaGranted(c)
    \/ MediaDenied(c)
    \/ \E s \in 1..Len(client[c].socks) : SocketOpen(c, s)
    \/ \E s \in 1..Len(client[c].socks), m \in SelfMessages :
         OnMessage(c, s, m, MaxSelfMessages)
    \/ \E i \in 1..Len(client[c].pcs), ok \in BOOLEAN : SettleOp(c, i, ok)

SpecSelf == Init /\ [][NextSelf]_vars

\* signaling traffic that matches no connection, no case and no grammar
NextStray ==
  \E c \in Clients :
    \/ InitTimerFire(c)
    \/ MediaGranted(c)
    \/ MediaDenied(c)
    \/ \E s \in 1..Len(client[c].socks) : SocketOpen(c, s)
    \/ \E s \in 1..Len(client[c].socks), m \in StrayMessages :
         OnMessage(c, s, m, MaxStrayMessages)
    \/ \E s \in 1..Len(client[c].socks) : OnUnparsable(c, s, MaxStrayMessages)
    \/ \E i \in 1..Len(client[c].pcs), ok \in BOOLEAN : SettleOp(c, i, ok)

SpecStray == Init /\ [][NextStray]_vars

\* the join handshake repeated after a reconnection of the signaling socket
NextRejoin ==
  \E c \in Clients :
    \/ InitTimerFire(c)
    \/ MediaGranted(c)
    \/ MediaDenied(c)
    \/ \E s \in 1..Len(client[c].socks) : SocketOpen(c, s)
    \/ \E s \in 1..Len(client[c].socks), code \in CloseCodes : SocketClose(c, s, code)
    \/ \E t \in client[c].timers : ReconnectTimerFire(c, t, MaxJoinSockets)
    \/ \E s \in 1..Len(client[c].socks), m \in RejoinMessages :
         OnMessage(c, s, m, MaxRejoinMessages)
    \/ \E i \in 1..Len(client[c].pcs), ok \in BOOLEAN : SettleOp(c, i, ok)

SpecRejoin == Init /\ [][NextRejoin]_vars

\* the microphone button during a call with screen sharing
NextMute ==
  \E c \in Clients :
    \/ InitTimerFire(c)
    \/ MediaGranted(c)
    \/ MediaDenied(c)
    \/ \E s \in 1..Len(client[c].socks) : SocketOpen(c, s)
    \/ \E s \in 1..Len(client[c].socks), m \in MuteMessages :
         OnMessage(c, s, m, MaxMuteMessages)
    \/ ToggleMic(c)
    \/ ToggleScreenShare(c, MaxToggles)
    \/ \E kind \in {"display", "camera"}, ok \in BOOLEAN : ShareSettle(c, kind, ok)

SpecMute == Init /\ [][NextMute]_vars

\* the server's room under concurrent joins, leaves and broadcasts
NextServer ==
  \E p \in Sessions :
    \/ Join(p)
    \/ Leave(p)
    \/ \E type \in BroadcastTypes : Broadcast(p, type)
    \/ \E r \in Sessions : Deliver(p, r)
    \/ Exit(p)

SpecServer == Init /\ [][NextServer]_vars

\* the session manager: rooms, transports, handshakes, leaves and bad messages
NextSessions ==
  \/ CreateRoom
  \/ EndRoom
  \/ \E p \in Sessions :
       \/ Connect(p)
       \/ LeaveMessage(p)
       \/ TransportClose(p)
       \/ \E r \in Sessions : Forward(p, r)
       \/ Finish(p)

SpecSessions == Init /\ [][NextSessions]_vars

\* the router: relayed messages, bad messages and dead sockets
NextRouter ==
  \/ CreateRoom
  \/ \E p \in Sessions :
       \/ Connect(p)
       \/ SocketDies(p)
       \/ TransportClose(p)
       \/ Malformed(p)
       \/ \E type \in BroadcastTypes : Relay(p, type)
       \/ \E r \in Sessions : Forward(p, r)
       \/ Finish(p)

SpecRouter == Init /\ [][NextRouter]_vars

----------------------------------------------------------------------------
(* A room of clients: every client runs the handlers above, and the frames a
   client sends are relayed to every other member with the sender's identity *)

\* the order in which the participants join
JoinOrder == <<"u1", "u2", "u3">>

RoomSizes == {2, 3}

\* a client with local media whose socket has opened, has sent join and has
\* handled connected with identity id
JoinedClient(id) ==
  LET a == [InitClient EXCEPT !.init = "done", !.localStream = TRUE, !.isLoading = FALSE,
                              !.video = "camera", !.mic = 1, !.micGen = 1]
      b == connectWebSocket(a)
      c == onopen([b EXCEPT !.socks[1].state = "open", !.socks[1].opened = TRUE,
                            !.everOpened = TRUE], 1)
      d == onConnected(c, Msg("connected", None, None, id, <<>>))
  IN [d EXCEPT !.outbox = <<>>]

Members(n) == {JoinOrder[k] : k \in 1..n}

\* size: the participants of the room; joined: how many have joined; net: the
\* frames under way to each participant, in the order the server sent them
InitRoom ==
  /\ \E n \in RoomSizes :
       /\ client = [c \in Members(n) |-> JoinedClient(c)]
       /\ server = [size |-> n, joined |-> 1, net |-> [c \in Members(n) |-> <<>>]]
  /\ app = JoinedApp
  /\ ev = Ev(None, "mount", 0, 0, None, None, FALSE)

\* the frames of a step as the other members receive them
RECURSIVE Relayed(_, _)
Relayed(outbox, sender) ==
  IF outbox = <<>> THEN <<>>
  ELSE <<Msg(Head(outbox).msg.type, sender, None, None, <<>>)>>
         \o Relayed(Tail(outbox), sender)

\* client c awaits no operation
Settled(c) == \A i \in 1..Len(client[c].pcs) : client[c].pcs[i].chain = <<>>

\* no frame is under way
Delivered == \A c \in DOMAIN client : server.net[c] = <<>>

\* client c has taken a step to state st: its frames go to every other member
\* that has joined (they leave the outbox for the queues of the recipients)
RoomStep(c, st, net) ==
  /\ client' = [client EXCEPT ![c] = [st EXCEPT !.outbox = <<>>]]
  /\ server' = [server EXCEPT !.net =
                  [d \in DOMAIN net |->
                     IF d # c /\ \E k \in 1..server.joined : JoinOrder[k] = d
                     THEN net[d] \o Relayed(st.outbox, c) ELSE net[d]]]
  /\ UNCHANGED <<ev, app>>

\* the next participant joins a room that has come to rest: it is told who is
\* there, they are told of it
Arrive ==
  /\ server.joined < server.size
  /\ Delivered /\ \A d \in DOMAIN client : Settled(d)
  /\ LET p == JoinOrder[server.joined + 1]
         there == SubSeq(JoinOrder, 1, server.joined)
     IN /\ server' = [server EXCEPT
                        !.joined = @ + 1,
                        !.net = [d \in DOMAIN @ |->
                                   IF d = p
                                   THEN Append(@[d], Msg("existing-participants", None, None,
                                                         None, there))
                                   ELSE IF \E k \in 1..server.joined : JoinOrder[k] = d
                                   THEN Append(@[d], Msg("user-joined", None, p, None, <<>>))
                                   ELSE @[d]]]
        /\ UNCHANGED <<client, ev, app>>

\* the message event of the next frame under way to c; in the room of three
\* a frame is handled once the operations awaited in the room have settled
Receive(c) ==
  /\ server.net[c] # <<>>
  /\ server.size = 2 \/ \A d \in DOMAIN client : Settled(d)
  /\ LET m == Head(server.net[c])
     IN RoomStep(c, handleSignalingMessage(Now(c), m),
                 [server.net EXCEPT ![c] = Tail(@)])

\* the browser settles the operation at the head of a connection's chain: it
\* succeeds whenever the connection's signaling state admits it
Settle(c, i) ==
  /\ ~client[c].pcs[i].closed
  /\ client[c].pcs[i].chain # <<>>
  /\ LET ok == CanSettle(client[c].pcs[i], Head(client[c].pcs[i].chain))
     IN RoomStep(c, IF ok THEN resolved(Now(c), i) ELSE rejected(Now(c), i), server.net)

NextRoom ==
  \/ Arrive
  \/ \E c \in DOMAIN client :
       \/ Receive(c)
       \/ \E i \in 1..Len(client[c].pcs) : Settle(c, i)

\* sockets stay open, nobody leaves, and whatever can happen does happen
SpecRoom == InitRoom /\ [][NextRoom]_vars /\ WF_vars(NextRoom)

----------------------------------------------------------------------------
(* Properties *)

Abnormal(code) == code # NormalClosure /\ code # RoomNotFoundCode

PeerIndexes(c) == 1..Len(client[c].pcs)

\* C1: a client that is already in the room answers a newly announced
\* participant and never offers: no offer is sent for a peer connection that
\* the user-joined handler created for another participant.
C1_ExistingMemberNeverOffers ==
  \A c \in Clients :
    \A k \in 1..Len(client[c].outbox) :
      LET f == client[c].outbox[k].msg
      IN f.type = "offer" =>
           ~(/\ client[c].pcs[f.for].via = "user-joined"
             /\ client[c].pcs[f.for].rid \in Remotes)

\* C2: once handleLeave has run, no reconnect timer fires and so no new
\* signaling socket is opened.
C2_NoReconnectAfterLeave ==
  \A c \in Clients :
    (client[c].left = "leave" /\ ev.c = c) => ev.op # "timer"

\* C3: after handleLeave or unmount the peer-connection map is empty and
\* stays empty, and nothing is sent any more: no later message, settled
\* operation or socket event creates a connection or puts a frame on the wire.
C3_TeardownIsFinal ==
  \A c \in Clients :
    client[c].left # "no" =>
      /\ \A k \in PeerKeys : client[c].peersRef[k] = 0
      /\ (ev.c = c /\ ev.op \notin {"leave", "unmount"}) => client[c].outbox = <<>>

Schedule == <<2000, 4000, 8000, 16000, 30000>>

\* C4: the k-th consecutive abnormal closure since the attempt counter was
\* zero (k = 1..5) raises the counter from k-1 to k and schedules the
\* reconnect after Schedule[k]: 2s, 4s, 8s, 16s, 30s.
C4_BackoffSchedule ==
  [][\A c \in Clients :
       (/\ ev'.c = c /\ ev'.op = "close" /\ Abnormal(ev'.code)
        /\ client[c].reconnectAttempts < 5)
       => LET k == client[c].reconnectAttempts + 1
          IN /\ client'[c].reconnectAttempts = k
             /\ client'[c].timers =
                  client[c].timers \cup {[id |-> ev'.sock, delay |-> Schedule[k]]}
             /\ \A t \in client[c].timers : t.id # ev'.sock]_vars

C4_Witness ==
  \E c \in Clients :
    /\ ev.op = "close" /\ Abnormal(ev.code)
    /\ client[c].reconnectAttempts = 5
    /\ [id |-> ev.sock, delay |-> 30000] \in client[c].timers

\* C5 as stated: between two successful opens of the signaling socket at most
\* 5 reconnect attempts are scheduled.
C5_AtMostFiveBetweenOpens ==
  \A c \in Clients : client[c].schedSinceOpen <= 5

\* C5 amended: between two resets of the attempt counter (a successful open,
\* a connected message, a click on Retry Connection) at most 5 reconnects are
\* scheduled: the counter never exceeds 5, every scheduled reconnect raises it
\* by one, only those three events lower it, and an abnormal closure that
\* finds it at 5 schedules no timer, opens no socket and sets the fatal error.
C5_RetryBound ==
  /\ [](\A c \in Clients : client[c].reconnectAttempts <= 5)
  /\ [][\A c \in Clients :
          /\ client'[c].timers \ client[c].timers # {} =>
               client'[c].reconnectAttempts = client[c].reconnectAttempts + 1
          /\ client'[c].reconnectAttempts < client[c].reconnectAttempts =>
               /\ client'[c].reconnectAttempts = 0
               /\ \/ ev'.op \in {"open", "retry"}
                  \/ ev'.op = "message" /\ ev'.mtype = "connected"
          /\ (/\ ev'.c = c /\ ev'.op = "close" /\ Abnormal(ev'.code)
              /\ client[c].reconnectAttempts = 5) =>
               /\ client'[c].timers = client[c].timers
               /\ Len(client'[c].socks) = Len(client[c].socks)
               /\ client'[c].reconnectAttempts = 5
               /\ client'[c].error = "connect-failed"]_vars

C5_Witness ==
  \E c \in Clients :
    /\ ev.op = "close" /\ Abnormal(ev.code)
    /\ client[c].reconnectAttempts = 5
    /\ client[c].error = "connect-failed"
    /\ client[c].timers = {}

\* C6: a closure with the room-not-found code schedules no reconnect, leaves
\* the attempt counter unchanged and sets the fatal room error, whatever the
\* counter is.
C6_RoomGoneTerminal ==
  [][\A c \in Clients :
       (ev'.c = c /\ ev'.op = "close" /\ ev'.code = RoomNotFoundCode) =>
         /\ client'[c].timers = client[c].timers
         /\ client'[c].reconnectTimeoutRef = client[c].reconnectTimeoutRef
         /\ client'[c].reconnectAttempts = client[c].reconnectAttempts
         /\ Len(client'[c].socks) = Len(client[c].socks)
         /\ client'[c].error = "room-not-found"]_vars

C6_Witness ==
  \E c \in Clients :
    /\ ev.op = "close" /\ ev.code = RoomNotFoundCode
    /\ client[c].reconnectAttempts \in 1..4
    /\ client[c].error = "room-not-found"

\* C7: a closure with code 1000 schedules no reconnect, sets no error and
\* leaves the attempt counter unchanged.
C7_NormalClosureQuiet ==
  [][\A c \in Clients :
       (ev'.c = c /\ ev'.op = "close" /\ ev'.code = NormalClosure) =>
         /\ client'[c].timers = client[c].timers
         /\ client'[c].reconnectTimeoutRef = client[c].reconnectTimeoutRef
         /\ client'[c].reconnectAttempts = client[c].reconnectAttempts
         /\ Len(client'[c].socks) = Len(client[c].socks)
         /\ client'[c].error = client[c].error]_vars

C7_Witness ==
  \E c \in Clients :
    /\ ev.op = "close" /\ ev.code = NormalClosure
    /\ client[c].mounted
    /\ client[c].reconnectAttempts \in 1..4
    /\ client[c].error = None

\* C8: every open event and every connected message sets the attempt counter
\* to zero, and the first abnormal closure after a successful open finds the
\* counter at zero: it is retried after 2s as attempt 1 of 5.
C8_ResetOnOpen ==
  [][\A c \in Clients :
       /\ (ev'.c = c /\ ev'.op = "open") => client'[c].reconnectAttempts = 0
       /\ (ev'.c = c /\ ev'.op = "message" /\ ev'.mtype = "connected") =>
            client'[c].reconnectAttempts = 0
       /\ (/\ ev'.c = c /\ ev'.op = "close" /\ Abnormal(ev'.code)
           /\ client[c].everOpened /\ client[c].schedSinceOpen = 0) =>
            /\ client[c].reconnectAttempts = 0
            /\ client'[c].reconnectAttempts = 1
            /\ [id |-> ev'.sock, delay |-> 2000] \in client'[c].timers]_vars

\* a socket opened by a reconnect (after two failures) closes abnormally
C8_Witness ==
  \E c \in Clients :
    /\ ev.op = "close" /\ Abnormal(ev.code) /\ ev.opened /\ ev.sock = 3
    /\ Len(client[c].socks) = 3
    /\ client[c].schedSinceOpen = 1
    /\ client[c].reconnectAttempts = 1
    /\ [id |-> 3, delay |-> 2000] \in client[c].timers

\* C9: every socket that has opened, the first and each later one, has had
\* exactly one join sent on it, as its first frame, carrying the room id and
\* the display name; nothing is sent on a socket before it opens.
C9_JoinOnEveryOpen ==
  \A c \in Clients :
    /\ \A s \in 1..Len(client[c].socks) :
         LET k == client[c].socks[s]
         IN IF k.opened THEN k.first = "join" /\ k.joins = 1
            ELSE k.first = None /\ k.joins = 0
    /\ (ev.c = c /\ ev.op = "open") =>
         /\ Len(client[c].outbox) = 1
         /\ client[c].outbox[1].sock = ev.sock
         /\ client[c].outbox[1].msg.type = "join"
         /\ client[c].outbox[1].msg.room_id = RoomId
         /\ client[c].outbox[1].msg.user_id = Username

\* a reconnection: the second socket opens after the first had opened and
\* a handler had sent on it
C9_Witness ==
  \E c \in Clients :
    /\ ev.op = "open" /\ ev.sock = 2
    /\ client[c].socks[2].first = "join"
    /\ client[c].socks[1].state = "closed"
    /\ client[c].nmsg > 0

LivePeers(c, id) ==
  {i \in PeerIndexes(c) : ~client[c].pcs[i].closed /\ client[c].pcs[i].rid = id}

\* C10: the client holds at most one live peer connection per remote
\* identity, and handling user-joined or existing-participants leaves every
\* identity that already has a connection with that same connection,
\* unchanged (no new pending offer), and sends nothing.
C10_PeerLinkIdempotent ==
  /\ [](\A c \in Clients : \A id \in PeerKeys : Cardinality(LivePeers(c, id)) <= 1)
  /\ [][\A c \in Clients :
          (/\ ev'.c = c /\ ev'.op = "message"
           /\ ev'.mtype \in {"user-joined", "existing-participants"}) =>
            /\ client'[c].outbox = <<>>
            /\ \A id \in PeerKeys :
                 client[c].peersRef[id] # 0 =>
                   /\ client'[c].peersRef[id] = client[c].peersRef[id]
                   /\ client'[c].pcs[client[c].peersRef[id]] =
                        client[c].pcs[client[c].peersRef[id]]]_vars

\* a user-joined for u2 was handled while u2's connection, created earlier by
\* an offer from u2, is the only one
C10_Witness ==
  \E c \in Clients :
    /\ ev.op = "message" /\ ev.mtype = "user-joined" /\ ev.who = "u2"
    /\ Len(client[c].pcs) = 1
    /\ client[c].peersRef["u2"] = 1
    /\ client[c].pcs[1].via = "offer"
    /\ ~client[c].pcs[1].closed

\* the step settles (resolves) the operation at the head of connection i's chain
ResolvedOn(c, i) ==
  /\ ev'.c = c /\ ev'.op = "resolved"
  /\ client[c].pcs[i].chain # <<>>
  /\ client'[c].pcs[i] # client[c].pcs[i]

\* the connection has created its own offer (pending as local description)
\* or has set and sent it
HasOwnOffer(pc) ==
  \/ pc.local = "offer"
  \/ \E k \in 1..Len(pc.chain) :
       pc.chain[k].kind = "offerer" /\ pc.chain[k].at = "setLocalDescription"

\* C11: a peer connection that has created or sent its own offer never
\* applies an incoming offer, and an incoming answer is applied only to a
\* connection whose own offer is set and sent (have-local-offer).
C11_NegotiationPaths ==
  [][\A c \in Clients : \A i \in PeerIndexes(c) :
       ResolvedOn(c, i) =>
         LET pc == client[c].pcs[i]
             h == Head(pc.chain)
         IN /\ (h.kind = "answerer" /\ h.at = "setRemoteDescription") => ~HasOwnOffer(pc)
            /\ (h.kind = "answer" /\ h.at = "setRemoteDescription") =>
                 pc.sig = "have-local-offer" /\ pc.local = "offer"]_vars

\* the step settles (rejects) the operation at the head of connection i's chain
RejectedOn(c, i) ==
  /\ ev'.c = c /\ ev'.op = "rejected"
  /\ client[c].pcs[i].chain # <<>>
  /\ client'[c].pcs[i] # client[c].pcs[i]

\* a candidate is held for connection pc: an addIceCandidate is pending on it
HoldsCandidate(pc) ==
  \E k \in 1..Len(pc.chain) : pc.chain[k].at = "addIceCandidate"

\* C12: a candidate from another participant is never dropped on arrival
\* (afterwards the sender has a peer connection that holds it), it is never
\* lost by being applied before the remote description is set, and it is
\* applied only to a connection that has a remote description.
C12_CandidatesQueued ==
  [][\A c \in Clients :
       /\ (/\ ev'.c = c /\ ev'.op = "message" /\ ev'.mtype = "ice-candidate"
           /\ ev'.who \in Remotes) =>
            /\ client'[c].peersRef[ev'.who] # 0
            /\ HoldsCandidate(client'[c].pcs[client'[c].peersRef[ev'.who]])
       /\ \A i \in PeerIndexes(c) :
            /\ (RejectedOn(c, i) /\ Head(client[c].pcs[i].chain).at = "addIceCandidate") =>
                 client[c].pcs[i].remote # None
            /\ (ResolvedOn(c, i) /\ Head(client[c].pcs[i].chain).at = "addIceCandidate") =>
                 client[c].pcs[i].remote # None]_vars

\* the handlers that are in the middle of a negotiation step sequence on
\* connection pc: each awaits one operation of the connection's chain
NegotiatingHandlers(pc) ==
  {k \in 1..Len(pc.chain) : pc.chain[k].kind \in {"offerer", "answerer", "answer"}}

\* C13: negotiation is serialized per peer connection: at most one handler
\* is in the middle of its negotiation steps on a connection; a second
\* message for the same connection does not start its steps meanwhile.
C13_SerializedPerPeerLink ==
  \A c \in Clients : \A i \in PeerIndexes(c) :
    Cardinality(NegotiatingHandlers(client[c].pcs[i])) <= 1

\* C16: when an SDP or ICE operation fails on a peer connection, that
\* connection is torn down (closed and removed from the map, so that a later
\* offer or user-joined builds a fresh one), and every other connection and
\* the signaling sockets are left unchanged.
C16_FailureContained ==
  [][\A c \in Clients : \A i \in PeerIndexes(c) :
       RejectedOn(c, i) =>
         /\ client'[c].pcs[i].closed
         /\ client'[c].peersRef[client[c].pcs[i].rid] = 0
         /\ \A j \in PeerIndexes(c) \ {i} : client'[c].pcs[j] = client[c].pcs[j]
         /\ client'[c].socks = client[c].socks
         /\ client'[c].wsRef = client[c].wsRef]_vars

\* C19: after a user-left that names departing participant X has been
\* handled, X has no peer connection (it is closed and removed from the
\* map), and every other participant's connection and map entry is unchanged.
C19_UserLeftRemovesPeer ==
  [][\A c \in Clients :
       (/\ ev'.c = c /\ ev'.op = "message" /\ ev'.mtype = "user-left"
        /\ ev'.who \in Remotes) =>
         /\ client'[c].peersRef[ev'.who] = 0
         /\ \A i \in PeerIndexes(c) :
              client[c].pcs[i].rid = ev'.who => client'[c].pcs[i].closed
         /\ \A i \in PeerIndexes(c) :
              client[c].pcs[i].rid # ev'.who => client'[c].pcs[i] = client[c].pcs[i]
         /\ \A id \in PeerKeys \ {ev'.who} :
              client'[c].peersRef[id] = client[c].peersRef[id]]_vars

\* C14: when the shared screen track ends by itself while sharing is active,
\* the client turns back to the camera: the onended handler asks for the
\* camera (whose track then replaces the screen track on every connection)
\* and requests no new screen capture.
C14_EndedRevertsToCamera ==
  [][\A c \in Clients :
       (ev'.c = c /\ ev'.op = "screen-ended" /\ client[c].isScreenSharing) =>
         /\ "camera" \in client'[c].shareReqs
         /\ "display" \notin client'[c].shareReqs \ client[c].shareReqs]_vars

\* connection i is in the peer map
Mapped(c, i) == client[c].peersRef[client[c].pcs[i].rid] = i

C17_IceRestartOnFailure ==
  [][\A c \in Clients :
       (ev'.c = c /\ ev'.op = "pc-state" /\ ev'.mtype = "failed") =>
         /\ Len(client'[c].pcs) = Len(client[c].pcs)
         /\ \A i \in PeerIndexes(c) :
              client'[c].pcs[i] =
                IF ~client[c].pcs[i].closed /\ client[c].pcs[i].rid = ev'.who
                THEN [client[c].pcs[i] EXCEPT !.restart = TRUE]
                ELSE client[c].pcs[i]
         /\ client'[c].peersRef = client[c].peersRef
         /\ client'[c].socks = client[c].socks
         /\ client'[c].wsRef = client[c].wsRef
         /\ client'[c].timers = client[c].timers
         /\ client'[c].reconnectAttempts = client[c].reconnectAttempts
         /\ client'[c].error = client[c].error
         /\ client'[c].outbox = <<>>]_vars

\* u2's connection has failed and is restarted while u3's is untouched
C17_Witness ==
  \E c \in Clients :
    /\ ev.op = "pc-state" /\ ev.mtype = "failed" /\ ev.who = "u2"
    /\ client[c].peersRef["u2"] # 0 /\ client[c].peersRef["u3"] # 0
    /\ client[c].pcs[client[c].peersRef["u2"]].restart
    /\ ~client[c].pcs[client[c].peersRef["u2"]].closed
    /\ ~client[c].pcs[client[c].peersRef["u3"]].restart

\* C18: when getUserMedia is refused the mounted client still creates the
\* signaling socket in the same step and closes none; from then on the open
\* handler sends join and the handlers build and negotiate peer connections
\* as otherwise, which carry no local track; the media error by itself never
\* closes a socket (only a close event, a leave or an unmount does).
C18_MediaFailureDegrades ==
  /\ [][\A c \in Clients :
          /\ (ev'.c = c /\ ev'.op = "media-denied" /\ client[c].mounted) =>
               /\ client'[c].error = "media-denied"
               /\ Len(client'[c].socks) = Len(client[c].socks) + 1
               /\ client'[c].wsRef = Len(client'[c].socks)
               /\ client'[c].socks[client'[c].wsRef].state = "connecting"
          /\ (ev'.c = c /\ ev'.op = "open" /\ client[c].error = "media-denied") =>
               /\ Len(client'[c].outbox) = 1
               /\ client'[c].outbox[1].msg.type = "join"
          /\ (/\ ev'.c = c /\ ev'.op = "message" /\ ev'.mtype \in {"user-joined", "offer"}
              /\ ev'.who \in Remotes /\ client[c].error = "media-denied") =>
               client'[c].peersRef[ev'.who] # 0
          /\ \A s \in 1..Len(client[c].socks) :
               (client[c].socks[s].state \in {"connecting", "open"}
                /\ client'[c].socks[s].state \notin {"connecting", "open"}) =>
                 ev'.op \in {"close", "leave", "unmount", "retry", "timer"}]_vars
  /\ [](\A c \in Clients : \A i \in PeerIndexes(c) :
          (~client[c].localStream) => client[c].pcs[i].video = None)

\* without local media the client has joined and has sent its offer to u2 on
\* a connection that carries no track
C18_Witness ==
  \E c \in Clients :
    /\ client[c].error = "media-denied" /\ ~client[c].localStream
    /\ ev.op = "resolved" /\ ev.mtype = "setLocalDescription"
    /\ client[c].wsRef # 0
    /\ client[c].socks[client[c].wsRef].state = "open"
    /\ client[c].socks[client[c].wsRef].joins = 1
    /\ client[c].peersRef["u2"] # 0
    /\ client[c].pcs[client[c].peersRef["u2"]].video = None
    /\ Len(client[c].outbox) = 1 /\ client[c].outbox[1].msg.type \in {"offer", "answer"}

\* C20: every message of a fan-out on behalf of session S goes to a session
\* that is a member at that moment and is not S, and when the fan-out of a
\* broadcast is complete it has reached exactly the members other than S: no
\* member that has left is reached and no member is skipped, however joins,
\* leaves and broadcasts of other sessions are interleaved with it.
C20_BroadcastRecipients ==
  [][\A p \in Sessions :
       /\ \A r \in server'.op[p].delivered \ server.op[p].delivered :
            r # p /\ r \in server.members
       /\ (server.op[p].kind = "broadcast" /\ server'.op[p].kind = "idle") =>
            /\ server'.last.delivered = server.members \ {p}
            /\ p \in server.members]_vars

\* a broadcast of s1 has reached s2 and s3 while both are members
C20_Witness ==
  /\ server.last.kind = "broadcast" /\ server.last.sender = "s1"
  /\ server.last.delivered = {"s2", "s3"}
  /\ server.members = Sessions

\* C21: a departure produces one user-left per remaining member, whether the
\* session left by a leave message, by transport close, or by a leave message
\* followed by the close of its socket: no session ever receives a second
\* user-left about a participant that has not connected again, every live
\* recipient of a finished user-left fan-out has received exactly one, and
\* the participant is out of the membership from the step that handles its
\* leave until it connects again.
C21_OneUserLeftPerDeparture ==
  /\ [](\A r \in Sessions : \A p \in Sessions : server.leftSeen[r][p] <= 1)
  /\ [](\A p \in Sessions :
          (server.op[p].kind = "leave" \/ server.conn[p].state # "open") =>
             p \notin server.members \/ server.conn[p].state = "dead")
  /\ [][\A p \in Sessions :
          /\ (server'.req.by = p /\ server'.req.kind \in {"leave", "close"}
              /\ server' # server) => p \notin server'.members
          /\ (server.op[p].kind = "leave" /\ server'.op[p].kind = "idle") =>
               \A r \in server.op[p].targets :
                  server.conn[r].state = "open" => server'.leftSeen[r][p] = 1]_vars

\* s1 has sent leave and then closed its socket: the close found it gone, and
\* s2 and s3 have each received one user-left about it
C21_Witness ==
  /\ server.req = Request("s1", "close", "noop", None)
  /\ server.members = {"s2", "s3"}
  /\ server.leftSeen["s2"]["s1"] = 1 /\ server.leftSeen["s3"]["s1"] = 1

\* C22: a session that connects to the room is sent connected with its own
\* identity and then existing-participants with exactly the members that were
\* active before it, nothing else; when its user-joined fan-out is over every
\* other member has received exactly one user-joined about it, and none ever
\* holds two.
C22_JoinHandshake ==
  /\ [](\A r \in Sessions : \A p \in Sessions : server.joinSeen[r][p] <= 1)
  /\ [][\A p \in Sessions :
          /\ (server'.req = Request(p, "connect", "ok", server'.req.db)
              /\ server'.conn[p].state = "open" /\ server.conn[p].state # "open") =>
               /\ server'.sent = <<Reply("connected", p, {p}),
                                   Reply("existing-participants", p, server.members \ {p})>>
               /\ server'.hello[p] = server'.sent
               /\ server'.members = server.members \cup {p}
          /\ (server.op[p].kind = "join" /\ server'.op[p].kind = "idle") =>
               /\ server.op[p].targets = server.members \ {p}
               /\ \A r \in server.members \ {p} : server'.joinSeen[r][p] = 1]_vars

\* s1, s2 and s3 have joined in that order: s1 was told of nobody, s2 of s1,
\* s3 of s1 and s2, and s1 and s2 have each been told once of s3
C22_Witness ==
  /\ server.members = Sessions
  /\ server.hello["s1"] = <<Reply("connected", "s1", {"s1"}),
                            Reply("existing-participants", "s1", {})>>
  /\ server.hello["s2"] = <<Reply("connected", "s2", {"s2"}),
                            Reply("existing-participants", "s2", {"s1"})>>
  /\ server.hello["s3"] = <<Reply("connected", "s3", {"s3"}),
                            Reply("existing-participants", "s3", {"s1", "s2"})>>
  /\ server.joinSeen["s1"]["s3"] = 1 /\ server.joinSeen["s2"]["s3"] = 1
  /\ server.joinSeen["s1"]["s2"] = 1
  /\ server.req = Request("s3", "finish", "join", None)

\* C24: a leave, by message or by transport close, of a session that is not a
\* member of the room returns as a no-op and not as an error: membership and
\* participant records stay as they are, no fan-out starts and nothing is
\* sent; and while a session stays away no second user-left about it is sent.
C24_LeaveIdempotent ==
  [][\A p \in Sessions :
       (server'.req.by = p /\ server'.req.kind \in {"leave", "close"}
        /\ server' # server /\ p \notin server.members) =>
          /\ server'.req.result = "noop"
          /\ server'.members = server.members
          /\ server'.participants = server.participants
          /\ server'.op = server.op /\ server'.lock = server.lock
          /\ server'.sent = <<>>
          /\ server'.leftSeen = IF server'.req.kind = "close"
                                THEN Drop(server.leftSeen, p) ELSE server.leftSeen]_vars

\* s1 has left by message twice: the second leave found it gone and s2 holds
\* the one user-left of the first
C24_Witness ==
  /\ server.req = Request("s1", "leave", "noop", None)
  /\ server.conn["s1"].state = "open"
  /\ server.members = {"s2"}
  /\ server.leftSeen["s2"]["s1"] = 1
  /\ server.participants["s1"] = [active |-> 0, left |-> 1]

\* C25: a transport that connects while the room does not exist or has ended
\* is refused with RoomNotFound and closed with the room-not-found code;
\* the membership, the participant records and the fan-outs are untouched,
\* the session is sent nothing and no user-joined about it is sent.
C25_RoomNotFound ==
  [][\A p \in Sessions :
       (server'.req.by = p /\ server'.req.kind = "connect" /\ server' # server
        /\ server.status # "active") =>
          /\ server'.req.result = RoomNotFound
          /\ server'.conn[p] = [state |-> "closed", code |-> RoomNotFoundCode]
          /\ server'.members = server.members /\ p \notin server'.members
          /\ server'.participants = server.participants
          /\ server'.op = server.op /\ server'.lock = server.lock
          /\ server'.sent = <<>> /\ server'.hello[p] = <<>>
          /\ server'.joinSeen = server.joinSeen]_vars

\* the room has ended after s1 and s2 met in it, and s3's transport has been
\* closed with the room-not-found code
C25_Witness ==
  /\ server.status = "ended"
  /\ server.req = Request("s3", "connect", RoomNotFound, None)
  /\ server.conn["s3"] = [state |-> "closed", code |-> RoomNotFoundCode]
  /\ server.members = {}
  /\ server.participants["s1"].left = 1 /\ server.participants["s2"].left = 1

\* C26: a malformed message of session p is answered with exactly one error
\* message addressed to p; it starts no fan-out, reaches no other session,
\* changes neither membership nor participant records, and p's transport is
\* still open afterwards.
C26_MalformedAnswered ==
  [][\A p \in Sessions :
       (server'.req.by = p /\ server'.req.kind = "malformed" /\ server' # server) =>
          /\ server'.sent = <<Reply("error", p, {})>>
          /\ server'.conn = server.conn /\ server'.conn[p].state = "open"
          /\ server'.members = server.members
          /\ server'.participants = server.participants
          /\ server'.op = server.op /\ server'.failed = server.failed
          /\ server'.joinSeen = server.joinSeen
          /\ server'.leftSeen = server.leftSeen]_vars

\* s1, in the room with s2 and s3, has sent a malformed message and has its
\* error reply
C26_Witness ==
  /\ server.req = Request("s1", "malformed", "error", None)
  /\ server.sent = <<Reply("error", "s1", {})>>
  /\ server.members = Sessions
  /\ server.conn["s1"].state = "open"

\* C27: when a fan-out is over, every recipient whose socket is live has been
\* sent the message, whichever recipients failed on a dead socket and
\* whenever in the fan-out they failed; only dead sockets fail.
C27_FailureIsolated ==
  [][\A p \in Sessions :
       (server.op[p].kind # "idle" /\ server'.op[p].kind = "idle") =>
          /\ \A r \in server.op[p].targets :
               server.conn[r].state = "open" => r \in server.op[p].delivered
          /\ \A r \in server.failed[p] : server.conn[r].state = "dead"]_vars

\* the broadcast of s1 failed on the dead socket of s2 and then reached s3
C27_Witness ==
  /\ server.op["s1"].kind = "broadcast"
  /\ server.op["s1"].targets = {"s2", "s3"}
  /\ server.failed["s1"] = {"s2"} /\ server.conn["s2"].state = "dead"
  /\ server.op["s1"].delivered = {"s3"}
  /\ server.req = Request("s1", "send", "ok", None)

\* C28: the participants table never holds two active records of one
\* identity in the room, and no join or leave of the session manager fails on
\* the table, whatever records the identity already has.
C28_ParticipantRecords ==
  /\ \A p \in Sessions : server.participants[p].active <= 1
  /\ server.req.db # "unique_violation"

\* C23: the count that get_active_participants_count reports for the room
\* equals the number of sessions bound to the room.
C23_CountMatchesSessions ==
  get_active_participants_count(server) = Cardinality(ActiveSessions(server))

\* C29: once the client has handled connected on its current socket, the
\* identity it has recorded is the one the server assigned, in whichever of
\* the two shapes the message arrived; and a message whose sender is the
\* recorded identity, other than user-joined, existing-participants and
\* connected, changes neither the sockets nor the peer connections.
C29_OwnIdentityRecorded ==
  [][\A c \in Clients :
       /\ (ev'.op = "message" /\ ev'.mtype = "connected" /\ ev'.c = c
           /\ ev'.sock = client[c].wsRef) =>
            MyUserId(client'[c]) = SelfId
       /\ (ev'.op = "message" /\ ev'.c = c /\ ev'.who # None
           /\ ev'.who = MyUserId(client[c])
           /\ ev'.mtype \notin {"user-joined", "existing-participants", "connected"}) =>
            /\ client'[c].socks = client[c].socks
            /\ client'[c].pcs = client[c].pcs
            /\ client'[c].peersRef = client[c].peersRef]_vars

\* C30: a PeerLink takes part in one pairing only: an incoming offer is
\* applied only to a connection that has no remote description yet, an
\* answer is sent only by a connection that has not sent one, and an incoming
\* answer is applied only to a connection whose own offer is pending and
\* unanswered.
C30_OnePairingPerLink ==
  [][\A c \in Clients : \A i \in PeerIndexes(c) :
       ResolvedOn(c, i) =>
         LET pc == client[c].pcs[i]
             h == Head(pc.chain)
         IN /\ (h.kind = "answerer" /\ h.at = "setRemoteDescription") =>
                 pc.remote = None
            /\ (h.kind = "answerer" /\ h.at = "setLocalDescription") =>
                 pc.local # "answer"
            /\ (h.kind = "answer" /\ h.at = "setRemoteDescription") =>
                 pc.remote = None /\ pc.local = "offer"]_vars

\* C31: while the local user is muted, the audio track on the sender of every
\* open peer connection of the map is disabled.
C31_MuteOnTheWire ==
  \A c \in Clients :
    client[c].isMuted =>
      \A i \in PeerIndexes(c) :
        (Mapped(c, i) /\ ~client[c].pcs[i].closed /\ client[c].pcs[i].audio # 0) =>
          client[c].pcs[i].audio \in client[c].micOff

\* the sockets of client c that are connecting or open
LiveSockets(c) ==
  {s \in 1..Len(client[c].socks) : client[c].socks[s].state \in {"connecting", "open"}}

\* C32: a client never has two sockets that are connecting or open, never
\* two pending reconnect timers, and the close event of a socket that is no
\* longer the current one schedules no reconnect.
C32_OneSocketOneTimer ==
  /\ [](\A c \in Clients :
          Cardinality(LiveSockets(c)) <= 1 /\ Cardinality(client[c].timers) <= 1)
  /\ [][\A c \in Clients :
          (ev'.op = "close" /\ ev'.c = c /\ ev'.sock # client[c].wsRef) =>
             client'[c].timers \subseteq client[c].timers]_vars

\* C33: when existing-participants is handled on the current socket, every
\* listed identity other than the client's own has afterwards a PeerLink that
\* was created under this socket (by this message or by an earlier one on
\* the same socket): a connection created under an earlier socket is not
\* kept in its place.
C33_FreshOffersAfterReconnect ==
  [][\A c \in Clients :
       (ev'.op = "message" /\ ev'.mtype = "existing-participants" /\ ev'.c = c
        /\ ev'.sock = client[c].wsRef) =>
          \A n \in 1..Len(RejoinList) :
             LET k == RejoinList[n]
                 i == client'[c].peersRef[k]
             IN k # MyUserId(client[c]) =>
                  /\ i # 0
                  /\ client'[c].pcs[i].sock = client[c].wsRef]_vars

\* c holds a PeerLink for k whose local and remote description are both set
Connected(c, k) ==
  /\ client[c].peersRef[k] # 0
  /\ LET pc == client[c].pcs[client[c].peersRef[k]]
     IN ~pc.closed /\ pc.local # None /\ pc.remote # None

C35_NoLinkToSelf ==
  [][\A c \in Clients :
       (/\ ev'.op = "message" /\ ev'.c = c
        /\ client[c].wsRef # 0 /\ ev'.sock = client[c].wsRef
        /\ client[c].socks[client[c].wsRef].connected) =>
          /\ client'[c].peersRef[SelfId] = client[c].peersRef[SelfId]
          /\ ev'.who = SelfId =>
               /\ client'[c].pcs = client[c].pcs
               /\ client'[c].outbox = <<>>]_vars

\* C36: a click on the microphone button with a local stream present flips
\* isMuted, leaves the local microphone track enabled exactly when the user is
\* not muted, and sends exactly one mute-status frame that carries the new
\* isMuted; and a mute-status received from another participant is recorded
\* for its sender.
C36_MuteStatusPropagates ==
  [][\A c \in Clients :
       /\ (ev'.op = "toggle-mic" /\ ev'.c = c /\ client[c].localStream) =>
            /\ client'[c].isMuted = ~client[c].isMuted
            /\ client[c].mic # 0 =>
                 (client[c].mic \in client'[c].micOff <=> client'[c].isMuted)
            /\ Len(client'[c].outbox) = 1
            /\ client'[c].outbox[1].msg = MuteStatus(client'[c].isMuted)
       /\ (ev'.op = "message" /\ ev'.mtype = "mute-status" /\ ev'.c = c
           /\ ev'.who \in Remotes) =>
            client'[c].remoteMuteStatus[ev'.who] \in BOOLEAN]_vars

\* C37: unmatched inbound traffic is contained: an answer or ice-candidate of
\* a sender without a connection, a message of an unknown type and a frame
\* that is not JSON create no connection, change no existing connection, send
\* nothing and leave the signaling socket as it was
Unmatched(st, e) ==
  /\ e.op = "message"
  /\ \/ e.mtype \in {"answer", "ice-candidate"} /\ e.who \in Ids /\ st.peersRef[e.who] = 0
     \/ e.mtype \in {"chat", "not-json"}

C37_UnmatchedContained ==
  [][\A c \in Clients :
       (ev'.c = c /\ Unmatched(client[c], ev')) =>
         /\ client'[c].pcs = client[c].pcs
         /\ client'[c].peersRef = client[c].peersRef
         /\ client'[c].outbox = <<>>
         /\ client'[c].socks = client[c].socks
         /\ client'[c].wsRef = client[c].wsRef
         /\ client'[c].error = client[c].error]_vars

\* an answer of u3 arrived while only u2 has a connection, whose offer is
\* still being produced
C37_Witness ==
  /\ ev.op = "message" /\ ev.mtype = "answer" /\ ev.who = "u3"
  /\ client["c1"].peersRef["u2"] # 0 /\ client["c1"].peersRef["u3"] = 0
  /\ client["c1"].pcs[client["c1"].peersRef["u2"]].chain # <<>>
  /\ WsOpen(client["c1"])

\* C38: sendSignalingMessage transmits only on an open current socket; an
\* offer or answer whose setLocalDescription resolves while the socket is
\* absent, connecting, closing or closed is dropped with no other change of
\* state, and no later step sends it: offers and answers go out only in the
\* step that applies them as local description
Frames(st) == {st.outbox[k] : k \in 1..Len(st.outbox)}

Rest(st) == [st EXCEPT !.pcs = <<>>, !.outbox = <<>>]

C38_DroppedWhenNotOpen ==
  [][\A c \in Clients :
       /\ \A f \in Frames(client'[c]) :
            /\ client[c].socks[f.sock].state = "open" \/ (ev'.op = "open" /\ ev'.sock = f.sock)
            /\ f.msg.type \in {"offer", "answer"} =>
                 /\ ev'.op = "resolved" /\ ev'.mtype = "setLocalDescription"
                 /\ f.sock = client[c].wsRef
                 /\ client[c].pcs[f.msg.for].chain # <<>>
                 /\ Head(client[c].pcs[f.msg.for].chain).at = "setLocalDescription"
       /\ (ev'.c = c /\ ev'.op = "resolved" /\ ev'.mtype = "setLocalDescription"
             /\ ~WsOpen(client[c])) =>
            /\ client'[c].outbox = <<>>
            /\ Rest(client'[c]) = Rest(client[c])
            /\ Len(client'[c].pcs) = Len(client[c].pcs)]_vars

\* the offer for u2 has just been applied as local description while the
\* socket it was created under is closed: nothing went out
C38_Witness ==
  /\ ev.op = "resolved" /\ ev.mtype = "setLocalDescription" /\ ev.who = "u2"
  /\ client["c1"].peersRef["u2"] # 0
  /\ client["c1"].pcs[client["c1"].peersRef["u2"]].local = "offer"
  /\ client["c1"].mounted
  /\ ~WsOpen(client["c1"])
  /\ client["c1"].outbox = <<>>

\* C39: the join form enters the call only with a non-blank room id and
\* username and after the lookup of the trimmed room id returned true; a blank
\* field, a 404, a lookup reporting no room and a lookup error each leave
\* joined false and set an error message; leaving the call resets joined,
\* room id and username
C39_JoinFormGate ==
  [][/\ (app'.joined /\ ~app.joined) =>
          /\ trim(app'.roomId) # <<>> /\ trim(app'.username) # <<>>
          /\ app'.checked.resp = "200-true"
          /\ app'.checked.room = trim(app'.roomId)
     /\ (ev'.op = "lookup" /\ ev'.mtype # "200-true") => ~app'.joined /\ app'.error # ""
     /\ (ev'.op = "submit" /\ (trim(app.roomId) = <<>> \/ trim(app.username) = <<>>)) =>
          ~app'.joined /\ app'.error # "" /\ ~app'.lookup.pending
     /\ ev'.op = "app-leave" =>
          ~app'.joined /\ app'.roomId = <<>> /\ app'.username = <<>>]_vars

====
